---- MODULE Spec2Model ----
(***************************************************************************)
(* Territorial reference resolution and cache of config.py:                *)
(*   normalizar_nombre_territorio, cargar_codigos_divipola_desde_gpkg,     *)
(*   buscar_codigo_municipio, buscar_codigo_vereda,                        *)
(* with the module globals _CODIGOS_DIVIPOLA_CACHE and _GPKG_TIMESTAMP and *)
(* the reference file FileConfig.TERRITORIOS_FILE as the environment.      *)
(*                                                                         *)
(* Encoding of Python values:                                              *)
(*   - a str is a sequence of one-character strings; an accented letter is *)
(*     written as the letter followed by ' (A' is A-acute, N~ is N-tilde); *)
(*   - an optional value is a sequence of length <= 1: None is <<>>,       *)
(*     Some(v) is <<v>> (so the empty str, Some(<<>>), differs from None); *)
(*   - a code is a TLA+ string; a missing code (NaN) is "NaN";             *)
(*   - a dict is a sequence of [k, v] entries in insertion order.          *)
(***************************************************************************)
EXTENDS Integers, Sequences, FiniteSets, TLC

None == <<>>
Some(v) == <<v>>
IsNone(o) == Len(o) = 0
Val(o) == o[1]

NaN == "NaN"
NoCode == "None"

Min(a, b) == IF a < b THEN a ELSE b

(***************************************************************************)
(* Strings                                                                 *)
(***************************************************************************)
LowerChars == <<"a", "b", "c", "d", "e", "f", "g", "h", "i", "j", "k", "l", "m",
                "n", "o", "p", "q", "r", "s", "t", "u", "v", "w", "x", "y", "z",
                "a'", "e'", "i'", "o'", "u'", "n~">>
UpperChars == <<"A", "B", "C", "D", "E", "F", "G", "H", "I", "J", "K", "L", "M",
                "N", "O", "P", "Q", "R", "S", "T", "U", "V", "W", "X", "Y", "Z",
                "A'", "E'", "I'", "O'", "U'", "N~">>

\* str.upper() on one character
UpperTable ==
    [c \in {LowerChars[i] : i \in 1..Len(LowerChars)} |->
        UpperChars[CHOOSE i \in 1..Len(LowerChars) : LowerChars[i] = c]]

UpperChar(c) == IF c \in DOMAIN UpperTable THEN UpperTable[c] ELSE c

\* str.lower() on one character
LowerTable ==
    [c \in {UpperChars[i] : i \in 1..Len(UpperChars)} |->
        LowerChars[CHOOSE i \in 1..Len(UpperChars) : UpperChars[i] = c]]

LowerChar(c) == IF c \in DOMAIN LowerTable THEN LowerTable[c] ELSE c

\* a cased character (a letter)
IsCased(c) == c \in DOMAIN UpperTable \/ c \in DOMAIN LowerTable

\* str.title(): a letter after a letter is lower-cased, any other is upper-cased
StrTitle(s) ==
    [i \in 1..Len(s) |->
        IF i > 1 /\ IsCased(s[i - 1]) THEN LowerChar(s[i]) ELSE UpperChar(s[i])]

\* str.upper()
StrUpper(s) == [i \in 1..Len(s) |-> UpperChar(s[i])]

IsSpace(c) == c = " "

RECURSIVE LStrip(_)
LStrip(s) == IF s # <<>> /\ IsSpace(s[1]) THEN LStrip(Tail(s)) ELSE s

RECURSIVE RStrip(_)
RStrip(s) == IF s # <<>> /\ IsSpace(s[Len(s)]) THEN RStrip(SubSeq(s, 1, Len(s) - 1)) ELSE s

\* str.strip()
StrStrip(s) == RStrip(LStrip(s))

\* str.replace(old, new) for a one-character old and new
ReplaceChar(s, old, new) == [i \in 1..Len(s) |-> IF s[i] = old THEN new ELSE s[i]]

\* str.replace("  ", " "): one left-to-right pass over non-overlapping matches
RECURSIVE ReplaceDoubleSpace(_)
ReplaceDoubleSpace(s) ==
    IF Len(s) < 2 THEN s
    ELSE IF s[1] = " " /\ s[2] = " "
         THEN <<" ">> \o ReplaceDoubleSpace(SubSeq(s, 3, Len(s)))
         ELSE <<s[1]>> \o ReplaceDoubleSpace(Tail(s))

\* a in b (substring containment; the empty str is in every str)
StrIn(a, b) ==
    \E i \in 1..(Len(b) - Len(a) + 1) : SubSeq(b, i, i + Len(a) - 1) = a

(***************************************************************************)
(* Dicts (insertion ordered)                                               *)
(***************************************************************************)
DictHas(d, k) == \E i \in 1..Len(d) : d[i].k = k

DictGet(d, k, default) ==
    IF DictHas(d, k) THEN d[CHOOSE i \in 1..Len(d) : d[i].k = k].v ELSE default

\* d[k] = v: an existing key keeps its position, a new key is appended
DictSet(d, k, v) ==
    IF DictHas(d, k)
    THEN [i \in 1..Len(d) |-> IF d[i].k = k THEN [k |-> k, v |-> v] ELSE d[i]]
    ELSE Append(d, [k |-> k, v |-> v])

RECURSIVE DictFromPairs(_)
DictFromPairs(ps) ==
    IF ps = <<>> THEN <<>>
    ELSE DictSet(DictFromPairs(SubSeq(ps, 1, Len(ps) - 1)), ps[Len(ps)].k, ps[Len(ps)].v)

\* the greatest element: the last match of a loop that does not stop at the first
FirstOf_ultimo(S) == CHOOSE i \in S : \A j \in S : i >= j

\* the least element of a non-empty set of indices
FirstOf(S) == CHOOSE i \in S : \A j \in S : i <= j

(***************************************************************************)
(* Name normalizer                                                         *)
(***************************************************************************)
SAN_SEBASTIAN_AC == <<"S", "A", "N", " ", "S", "E", "B", "A", "S", "T", "I", "A'", "N", " ", "D", "E", " ", "M", "A", "R", "I", "Q", "U", "I", "T", "A">>
SAN_SEBASTIAN == <<"S", "A", "N", " ", "S", "E", "B", "A", "S", "T", "I", "A", "N", " ", "D", "E", " ", "M", "A", "R", "I", "Q", "U", "I", "T", "A">>
MARIQUITA == <<"M", "A", "R", "I", "Q", "U", "I", "T", "A">>
ARMERO_PAR == <<"A", "R", "M", "E", "R", "O", " ", "(", "G", "U", "A", "Y", "A", "B", "A", "L", ")">>
ARMERO_GUAYABAL == <<"A", "R", "M", "E", "R", "O", " ", "G", "U", "A", "Y", "A", "B", "A", "L">>
CARMEN_AC == <<"C", "A", "R", "M", "E", "N", " ", "D", "E", " ", "A", "P", "I", "C", "A", "L", "A'">>
CARMEN == <<"C", "A", "R", "M", "E", "N", " ", "D", "E", " ", "A", "P", "I", "C", "A", "L", "A">>
VALLE == <<"V", "A", "L", "L", "E", " ", "D", "E", " ", "S", "A", "N", " ", "J", "U", "A", "N">>

MAPEO_MUNICIPIOS_ESPECIALES ==
    << [k |-> SAN_SEBASTIAN_AC, v |-> MARIQUITA],
       [k |-> SAN_SEBASTIAN,    v |-> MARIQUITA],
       [k |-> ARMERO_PAR,       v |-> ARMERO_GUAYABAL],
       [k |-> CARMEN_AC,        v |-> CARMEN],
       [k |-> VALLE,            v |-> VALLE] >>

\* the chain of .replace calls and the final .strip()
FoldAccents(s) ==
    StrStrip(ReplaceDoubleSpace(
        ReplaceChar(ReplaceChar(ReplaceChar(ReplaceChar(ReplaceChar(ReplaceChar(s,
            "A'", "A"), "E'", "E"), "I'", "I"), "O'", "O"), "U'", "U"), "N~", "N")))

\* normalizar_nombre_territorio(nombre); nombre is optional (pd.isna)
normalizar_nombre_territorio(nombre) ==
    IF IsNone(nombre) THEN None
    ELSE LET n1 == StrUpper(StrStrip(Val(nombre)))
             n2 == DictGet(MAPEO_MUNICIPIOS_ESPECIALES, n1, n1)
         IN  Some(FoldAccents(n2))

\* the loaders' lambda x: normalizar_nombre_territorio(x).title() if pd.notna(x) else None
PreNormalizar(x) ==
    IF IsNone(x) THEN None ELSE Some(StrTitle(Val(normalizar_nombre_territorio(x))))

(***************************************************************************)
(* Reference dataset: the rows gpd.read_file yields                        *)
(***************************************************************************)
IBAGUE == <<"I", "B", "A", "G", "U", "E">>
IBAGUE_RAW == <<"I", "b", "a", "g", "u", "e'">>
LA_ESPERANZA == <<"L", "A", " ", "E", "S", "P", "E", "R", "A", "N", "Z", "A">>
LA_ESPERANZA_RAW == <<"L", "a", " ", "E", "s", "p", "e", "r", "a", "n", "z", "a">>
ESPERANZA_RAW == <<"E", "s", "p", "e", "r", "a", "n", "z", "a">>
CENTRO == <<"C", "E", "N", "T", "R", "O">>
ZZ == <<"Z", "Z">>
ARMERO == <<"A", "R", "M", "E", "R", "O">>
ARMERO_RAW == <<"A", "r", "m", "e", "r", "o">>
ARM_RAW == <<"a", "r", "m">>
ARMERO_PAR_RAW == <<"A", "r", "m", "e", "r", "o", " ", "(", "G", "u", "a", "y", "a", "b", "a", "l", ")">>
IBAGUE_AC == <<"I", "B", "A", "G", "U", "E'">>
MARIQUITA_RAW == <<"M", "a", "r", "i", "q", "u", "i", "t", "a">>
LA_ESPERANZA_ALTA_RAW == <<"L", "a", " ", "E", "s", "p", "e", "r", "a", "n", "z", "a", " ", "A", "l", "t", "a">>
A_3SP_B == <<"a", " ", " ", " ", "b">>
SAN_SEBASTIAN_2SP == <<"S", "a", "n", " ", "S", "e", "b", "a", "s", "t", "i", "a'", "n", " ", " ", "d", "e", " ", "M", "a", "r", "i", "q", "u", "i", "t", "a">>
ARMERO_2SP_PAR == <<"A", "r", "m", "e", "r", "o", " ", " ", "(", "G", "u", "a", "y", "a", "b", "a", "l", ")">>
VACIO == <<>>
BLANCO == <<" ">>

Row(tipo, nombre, divipola, codmun, municipio) ==
    [tipo |-> tipo, nombre |-> nombre, codigo_divipola |-> divipola,
     codigo_municipio |-> codmun, municipio |-> municipio]

\* the reference file as first shipped
DatasetA ==
    << Row("municipio", Some(IBAGUE), "73001", "73001", Some(IBAGUE)),
       Row("vereda", Some(LA_ESPERANZA_RAW), "73001001", "73001", Some(IBAGUE)),
       Row("cabecera", Some(CENTRO), "73001000", "73001", Some(IBAGUE)),
       Row("vereda", None, "73001002", "73001", Some(IBAGUE)) >>

\* the reference file replaced: the codes of the existing names changed
DatasetB ==
    << Row("municipio", Some(IBAGUE), "73002", "73002", Some(IBAGUE)),
       Row("vereda", Some(LA_ESPERANZA_RAW), "73002001", "73002", Some(IBAGUE)),
       Row("vereda", Some(CENTRO), "73002002", "73002", Some(MARIQUITA)) >>

\* municipalities: an accented name, an alias-table name, a name contained in
\* an earlier one, one without codigo_municipio; a township without
\* codigo_divipola and an urban center without nombre
DatasetC ==
    << Row("municipio", Some(IBAGUE_RAW), "73001", "73001", Some(IBAGUE_RAW)),
       Row("municipio", Some(ARMERO_PAR_RAW), "73055", "73055", Some(ARMERO_PAR_RAW)),
       Row("municipio", Some(ARMERO_RAW), "73056", "73056", Some(ARMERO_RAW)),
       Row("vereda", Some(CENTRO), "73055001", "73055", Some(ARMERO_PAR_RAW)),
       Row("vereda", Some(CENTRO), "73056001", "73056", Some(ARMERO_RAW)),
       Row("municipio", Some(MARIQUITA_RAW), "73443", NaN, Some(MARIQUITA_RAW)),
       Row("vereda", Some(LA_ESPERANZA_RAW), NaN, "73055", Some(ARMERO_PAR_RAW)),
       Row("cabecera", None, "73055000", "73055", Some(ARMERO_PAR_RAW)) >>

\* two municipalities with a township of the same name, the 'municipio' column
\* written in capitals without accents
DatasetD ==
    << Row("municipio", Some(MARIQUITA), "73443", "73443", Some(MARIQUITA)),
       Row("municipio", Some(IBAGUE), "73001", "73001", Some(IBAGUE)),
       Row("vereda", Some(LA_ESPERANZA_ALTA_RAW), "73443002", "73443", Some(MARIQUITA)),
       Row("vereda", Some(LA_ESPERANZA_RAW), "73443001", "73443", Some(MARIQUITA)),
       Row("vereda", Some(LA_ESPERANZA_RAW), "73001001", "73001", Some(IBAGUE)) >>

\* the same, the 'municipio' column written as the names are spelled
DatasetE ==
    << Row("municipio", Some(MARIQUITA_RAW), "73443", "73443", Some(MARIQUITA_RAW)),
       Row("municipio", Some(IBAGUE_RAW), "73001", "73001", Some(IBAGUE_RAW)),
       Row("vereda", Some(LA_ESPERANZA_ALTA_RAW), "73443002", "73443", Some(MARIQUITA_RAW)),
       Row("vereda", Some(LA_ESPERANZA_RAW), "73443001", "73443", Some(MARIQUITA_RAW)),
       Row("vereda", Some(LA_ESPERANZA_RAW), "73001001", "73001", Some(IBAGUE_RAW)) >>

\* what the file may hold: a dataset, bytes read_file cannot parse
\* ("corrupt"), or a layer without the 'tipo' column ("notipo")
ValidContents == {"A", "B"}
Contents == ValidContents \cup {"corrupt", "notipo"}

\* the datasets the resolver is exercised on
ResContents == {"C", "D", "E"}

\* gpd.read_file(gpkg_path) succeeds
Readable(content) == content # "corrupt"

\* the rows of the GeoDataFrame read
Rows(content) ==
    CASE content = "B" -> DatasetB
      [] content = "C" -> DatasetC
      [] content = "D" -> DatasetD
      [] content = "E" -> DatasetE
      [] OTHER -> DatasetA

\* the GeoDataFrame has the columns the builder indexes by
HasTipo(content) == content # "notipo"

(***************************************************************************)
(* Reference index builder (the body of the try block)                     *)
(***************************************************************************)
\* dropna(subset=['nombre']): rows without codigo_divipola are kept
Limpiar_solo_nombre(rows) ==
    LET Keep(r) == ~IsNone(r.nombre)
        kept == SelectSeq(rows, Keep)
    IN  [i \in 1..Len(kept) |->
            [kept[i] EXCEPT !.nombre = Some(StrUpper(StrStrip(Val(kept[i].nombre))))]]

\* gdf.dropna(subset=['codigo_divipola', 'nombre']); nombre.str.strip().str.upper()
Limpiar(rows) ==
    LET Keep(r) == ~IsNone(r.nombre) /\ r.codigo_divipola # NaN
        kept == SelectSeq(rows, Keep)
    IN  [i \in 1..Len(kept) |->
            [kept[i] EXCEPT !.nombre = Some(StrUpper(StrStrip(Val(kept[i].nombre))))]]

DeTipo(gdf, tipo) == LET T(r) == r.tipo = tipo IN SelectSeq(gdf, T)

\* codigos_cache = {...}: every entry but 'veredas_por_municipio', which starts empty
CrearDiccionarios(gdf) ==
    [nombre_a_codigo |->
        DictFromPairs([i \in 1..Len(gdf) |-> [k |-> gdf[i].nombre, v |-> gdf[i].codigo_divipola]]),
     municipios |->
        LET m == DeTipo(gdf, "municipio")
        IN  [i \in 1..Len(m) |-> [nombre |-> m[i].nombre,
                                   codigo_divipola |-> m[i].codigo_divipola,
                                   codigo_municipio |-> m[i].codigo_municipio]],
     veredas |->
        LET m == DeTipo(gdf, "vereda")
        IN  [i \in 1..Len(m) |-> [nombre |-> m[i].nombre,
                                   codigo_divipola |-> m[i].codigo_divipola,
                                   municipio |-> m[i].municipio]],
     cabeceras |->
        LET m == DeTipo(gdf, "cabecera")
        IN  [i \in 1..Len(m) |-> [nombre |-> m[i].nombre,
                                   codigo_divipola |-> m[i].codigo_divipola,
                                   municipio |-> m[i].municipio]],
     veredas_por_municipio |-> <<>>,
     dataframe |-> gdf]

\* one iteration of the loop over the vereda rows
IndexarVereda(codigos, row) ==
    LET vpm == codigos.veredas_por_municipio
        sub == DictGet(vpm, row.municipio, <<>>)
    IN  [codigos EXCEPT !.veredas_por_municipio =
            DictSet(vpm, row.municipio, DictSet(sub, row.nombre, row.codigo_divipola))]

RECURSIVE IndexarVeredas(_, _)
IndexarVeredas(codigos, rows) ==
    IF rows = <<>> THEN codigos
    ELSE IndexarVeredas(IndexarVereda(codigos, Head(rows)), Tail(rows))

\* the index a complete run of the try block builds from the rows read
ConstruirIndice(content) ==
    LET gdf == Limpiar(Rows(content))
    IN  IndexarVeredas(CrearDiccionarios(gdf), DeTipo(gdf, "vereda"))

(***************************************************************************)
(* Code resolver                                                           *)
(***************************************************************************)
\* the department's own code as the generic code
SENTINEL_departamento == "73000"

SENTINEL == "73999"

\* a resolver whose print calls were removed
Resultado_mudo(code, prints) == [code |-> code, prints |-> <<>>]

\* what a resolver returns and the diagnostics it prints on the way
Resultado(code, prints) == [code |-> code, prints |-> prints]

\* a resolver that runs the containment loop before the equality loop
MunicipioEnIndice_aprox_primero(codigos, nombre_municipio) ==
    IF IsNone(nombre_municipio) THEN Resultado(NoCode, <<>>)
    ELSE
      LET nombre_norm == Val(normalizar_nombre_territorio(nombre_municipio))
          muns == codigos.municipios
          Norm(i) == Val(normalizar_nombre_territorio(muns[i].nombre))
          aprox == {i \in 1..Len(muns) :
                       StrIn(nombre_norm, Norm(i)) \/ StrIn(Norm(i), nombre_norm)}
      IN  IF aprox # {}
          THEN Resultado(muns[FirstOf(aprox)].codigo_municipio, <<>>)
          ELSE Resultado(SENTINEL, <<"no_encontrado">>)

\* buscar_codigo_municipio from pd.isna(nombre_municipio) on, codigos being an index
MunicipioEnIndice(codigos, nombre_municipio) ==
    IF IsNone(nombre_municipio) THEN Resultado(NoCode, <<>>)
    ELSE
      LET nombre_norm == Val(normalizar_nombre_territorio(nombre_municipio))
          muns == codigos.municipios
          Norm(i) == Val(normalizar_nombre_territorio(muns[i].nombre))
          exact == {i \in 1..Len(muns) : Norm(i) = nombre_norm}
          aprox == {i \in 1..Len(muns) :
                       StrIn(nombre_norm, Norm(i)) \/ StrIn(Norm(i), nombre_norm)}
      IN  IF exact # {} THEN Resultado(muns[FirstOf(exact)].codigo_municipio, <<>>)
          ELSE IF aprox # {}
               THEN Resultado(muns[FirstOf(aprox)].codigo_municipio, <<"aproximado">>)
               ELSE Resultado(SENTINEL, <<"no_encontrado">>)

\* a resolver that hands out the generic code when it was given no index
buscar_codigo_municipio_sin_guardia(codigos, nombre_municipio) ==
    IF IsNone(codigos) THEN Resultado(SENTINEL, <<"no_encontrado">>)
    ELSE MunicipioEnIndice(Val(codigos), nombre_municipio)

\* buscar_codigo_municipio, after codigos = cargar_codigos_divipola_desde_gpkg():
\* if not codigos: return None
buscar_codigo_municipio(codigos, nombre_municipio) ==
    IF IsNone(codigos) THEN Resultado(NoCode, <<>>)
    ELSE MunicipioEnIndice(Val(codigos), nombre_municipio)

\* a resolver that searches only the municipality given as context
buscar_codigo_vereda_solo_contexto(codigos, nombre_vereda, municipio_contexto) ==
    IF IsNone(codigos) THEN Resultado(NoCode, <<>>)
    ELSE IF IsNone(nombre_vereda) THEN Resultado(NoCode, <<>>)
    ELSE
      LET nombre_norm == Val(normalizar_nombre_territorio(nombre_vereda))
          conCtx == ~IsNone(municipio_contexto) /\ Val(municipio_contexto) # <<>>
          veredas_municipio ==
              IF conCtx
              THEN DictGet(Val(codigos).veredas_por_municipio,
                           normalizar_nombre_territorio(municipio_contexto), <<>>)
              ELSE <<>>
          enCtx == {i \in 1..Len(veredas_municipio) :
                       Val(normalizar_nombre_territorio(veredas_municipio[i].k)) = nombre_norm}
          vs == Val(codigos).veredas
          Norm(i) == Val(normalizar_nombre_territorio(vs[i].nombre))
          exact == {i \in 1..Len(vs) : Norm(i) = nombre_norm}
          aprox == {i \in 1..Len(vs) :
                       StrIn(nombre_norm, Norm(i)) \/ StrIn(Norm(i), nombre_norm)}
      IN  IF enCtx # {} THEN Resultado(veredas_municipio[FirstOf(enCtx)].v, <<>>)
          ELSE IF conCtx THEN Resultado(NoCode, <<"no_encontrado">>)
          ELSE IF exact # {} THEN Resultado(vs[FirstOf(exact)].codigo_divipola, <<>>)
          ELSE IF aprox # {}
               THEN Resultado(vs[FirstOf(aprox)].codigo_divipola, <<"aproximado">>)
               ELSE Resultado(NoCode, <<"no_encontrado">>)

\* buscar_codigo_vereda, after codigos = cargar_codigos_divipola_desde_gpkg()
buscar_codigo_vereda(codigos, nombre_vereda, municipio_contexto) ==
    IF IsNone(codigos) THEN Resultado(NoCode, <<>>)
    ELSE IF IsNone(nombre_vereda) THEN Resultado(NoCode, <<>>)
    ELSE
      LET nombre_norm == Val(normalizar_nombre_territorio(nombre_vereda))
          \* if municipio_contexto: None and the empty str are falsy
          conCtx == ~IsNone(municipio_contexto) /\ Val(municipio_contexto) # <<>>
          veredas_municipio ==
              IF conCtx
              THEN DictGet(Val(codigos).veredas_por_municipio,
                           normalizar_nombre_territorio(municipio_contexto), <<>>)
              ELSE <<>>
          enCtx == {i \in 1..Len(veredas_municipio) :
                       Val(normalizar_nombre_territorio(veredas_municipio[i].k)) = nombre_norm}
          vs == Val(codigos).veredas
          Norm(i) == Val(normalizar_nombre_territorio(vs[i].nombre))
          exact == {i \in 1..Len(vs) : Norm(i) = nombre_norm}
          aprox == {i \in 1..Len(vs) :
                       StrIn(nombre_norm, Norm(i)) \/ StrIn(Norm(i), nombre_norm)}
      IN  IF enCtx # {} THEN Resultado(veredas_municipio[FirstOf(enCtx)].v, <<>>)
          ELSE IF exact # {} THEN Resultado(vs[FirstOf(exact)].codigo_divipola, <<>>)
          ELSE IF aprox # {}
               THEN Resultado(vs[FirstOf(aprox)].codigo_divipola, <<"aproximado">>)
               ELSE Resultado(NoCode, <<"no_encontrado">>)

(***************************************************************************)
(* State                                                                   *)
(***************************************************************************)
NCallers == 2
MaxTime == 3
MaxCount == 2

Callers == 1..NCallers

VARIABLES
    gpkg_exists,              \* FileConfig.TERRITORIOS_FILE exists
    gpkg_mtime,               \* its os.path.getmtime
    gpkg_content,             \* what it holds
    _CODIGOS_DIVIPOLA_CACHE,  \* module global: None or the published index
    _GPKG_TIMESTAMP,          \* module global: None or a modification time
    pc,                       \* per caller: the line it is about to execute
    frame,                    \* per caller: arguments and locals of the call
    obs,                      \* per caller: what an observer of the call records
    sin_leer,                 \* observer: the file changed since read_file last succeeded
    reconstrucciones,         \* observer: indices built since the last file event (see L148)
    avisos,                   \* observer: failure diagnostics printed since the last file event
    coord                     \* SistemaCoordinadorTolima: position and locals of its run

vars == <<gpkg_exists, gpkg_mtime, gpkg_content, _CODIGOS_DIVIPOLA_CACHE, _GPKG_TIMESTAMP,
          pc, frame, obs, sin_leer, reconstrucciones, avisos, coord>>

archivo == <<gpkg_exists, gpkg_mtime, gpkg_content>>
globales == <<_CODIGOS_DIVIPOLA_CACHE, _GPKG_TIMESTAMP>>
contadores == <<sin_leer, reconstrucciones, avisos>>

\* the coordinator and the monitor call the loader itself
ConsultasCarga ==
    { [op |-> "cargar", forzar_recarga |-> f, nombre |-> None, contexto |-> None] : f \in BOOLEAN }

\* the calls a pipeline or the coordinator makes
Consultas ==
    ConsultasCarga
    \cup
    { [op |-> "municipio", forzar_recarga |-> FALSE, nombre |-> Some(n), contexto |-> None] :
        n \in {IBAGUE_RAW, ZZ} }
    \cup
    { [op |-> "vereda", forzar_recarga |-> FALSE, nombre |-> Some(LA_ESPERANZA_RAW),
       contexto |-> Some(IBAGUE_RAW)] }

\* the names and contexts the pipelines hand the resolver: as spelled in the
\* case files, absent (NaN), empty, blank, with runs of spaces
NombresMunicipio ==
    {Some(n) : n \in {IBAGUE_RAW, ARMERO_RAW, ARM_RAW, ARMERO_PAR_RAW, ZZ, VACIO, BLANCO,
                      A_3SP_B, SAN_SEBASTIAN_2SP, ARMERO_2SP_PAR}} \cup {None}
NombresVereda ==
    {Some(n) : n \in {LA_ESPERANZA_RAW, ESPERANZA_RAW, CENTRO, ZZ, VACIO}} \cup {None}
Contextos ==
    {Some(n) : n \in {IBAGUE_RAW, IBAGUE, MARIQUITA_RAW, ZZ, VACIO}} \cup {None}

ConsultasRes ==
    ConsultasCarga
    \cup
    { [op |-> "municipio", forzar_recarga |-> FALSE, nombre |-> n, contexto |-> None] :
        n \in NombresMunicipio }
    \cup
    { [op |-> "vereda", forzar_recarga |-> FALSE, nombre |-> n, contexto |-> c] :
        n \in NombresVereda, c \in Contextos }

\* the modes of actualizar_sistema_completo
Modos == {"completo", "solo_datos", "solo_verificacion", "rapido"}

\* the input files verificar_archivos_entrada looks for, in the order the
\* loads of actualizar_sistema_completo are scheduled
ARCHIVOS ==
    <<"Unidades Territoriales", "Poblacion SISBEN", "Vacunacion PAIweb",
      "Casos Fiebre Amarilla", "Epizootias">>

\* the coordinator before a run: no locals
CoordIdle ==
    [pc |-> "idle", modo |-> "", encontrados |-> {}, cargas_programadas |-> <<>>,
     i |-> 1, cargas_exitosas |-> 0, total_cargas |-> 0, intentadas |-> <<>>,
     resultado |-> None]

FrameIdle ==
    [op |-> "", forzar_recarga |-> FALSE, nombre |-> None, contexto |-> None,
     current_timestamp |-> None, gdf |-> None, codigos_cache |-> None, pendientes |-> <<>>,
     codigos |-> None, resultado |-> NoCode]

ObsIdle ==
    [antes |-> None, perturbado |-> FALSE, lecturas |-> 0, avisos |-> 0,
     leido_en |-> None, via |-> ""]

Init ==
    /\ gpkg_exists \in BOOLEAN
    /\ gpkg_mtime = 1
    /\ gpkg_content \in Contents
    /\ _CODIGOS_DIVIPOLA_CACHE = None
    /\ _GPKG_TIMESTAMP = None
    /\ pc = [t \in Callers |-> "idle"]
    /\ frame = [t \in Callers |-> FrameIdle]
    /\ obs = [t \in Callers |-> ObsIdle]
    /\ sin_leer = TRUE
    /\ reconstrucciones = 0
    /\ avisos = 0
    /\ coord = CoordIdle

\* the process starts with the reference file in place
InitRes ==
    /\ gpkg_exists = TRUE
    /\ gpkg_mtime = 1
    /\ gpkg_content \in ResContents \cup {"corrupt"}
    /\ _CODIGOS_DIVIPOLA_CACHE = None
    /\ _GPKG_TIMESTAMP = None
    /\ pc = [t \in Callers |-> "idle"]
    /\ frame = [t \in Callers |-> FrameIdle]
    /\ obs = [t \in Callers |-> ObsIdle]
    /\ sin_leer = TRUE
    /\ reconstrucciones = 0
    /\ avisos = 0
    /\ coord = CoordIdle

Inc(n) == Min(n + 1, MaxCount)

(***************************************************************************)
(* The reference file changes under the program                            *)
(***************************************************************************)
\* every call in progress has seen the file change under it
Perturbar ==
    /\ obs' = [t \in Callers |->
                 IF pc[t] = "idle" THEN obs[t] ELSE [obs[t] EXCEPT !.perturbado = TRUE]]
    /\ sin_leer' = TRUE
    /\ reconstrucciones' = 0
    /\ avisos' = 0
    /\ UNCHANGED <<globales, pc, frame, coord>>

\* the file is rewritten: new content, later modification time
Escribir(c) ==
    /\ gpkg_exists
    /\ gpkg_mtime < MaxTime
    /\ gpkg_content' = c
    /\ gpkg_mtime' = gpkg_mtime + 1
    /\ UNCHANGED gpkg_exists
    /\ Perturbar

\* the file is replaced by another with the same modification time
Reemplazar(c) ==
    /\ gpkg_exists
    /\ c # gpkg_content
    /\ gpkg_content' = c
    /\ UNCHANGED <<gpkg_exists, gpkg_mtime>>
    /\ Perturbar

Borrar ==
    /\ gpkg_exists
    /\ gpkg_exists' = FALSE
    /\ UNCHANGED <<gpkg_mtime, gpkg_content>>
    /\ Perturbar

Crear(c) ==
    /\ ~gpkg_exists
    /\ gpkg_mtime < MaxTime
    /\ gpkg_exists' = TRUE
    /\ gpkg_content' = c
    /\ gpkg_mtime' = gpkg_mtime + 1
    /\ Perturbar

(***************************************************************************)
(* cargar_codigos_divipola_desde_gpkg, one step per statement, and its     *)
(* callers.  pc[t] names the source line caller t executes next.           *)
(***************************************************************************)
Goto(t, l) == pc' = [pc EXCEPT ![t] = l]

\* what the caller makes of the index cargar_codigos_divipola_desde_gpkg()
\* handed it: the rest of buscar_codigo_municipio / buscar_codigo_vereda
Resolver(op, codigos, nombre, contexto) ==
    IF op = "municipio" THEN buscar_codigo_municipio(codigos, nombre)
    ELSE IF op = "vereda" THEN buscar_codigo_vereda(codigos, nombre, contexto)
    ELSE Resultado(NoCode, <<>>)

\* return codigos: the loader hands codigos to its caller, which runs to its end
Volver(t, codigos) ==
    /\ Goto(t, "done")
    /\ frame' = [frame EXCEPT
            ![t].codigos = codigos,
            ![t].resultado = Resolver(frame[t].op, codigos, frame[t].nombre, frame[t].contexto)]

\* a pipeline calls buscar_codigo_municipio / buscar_codigo_vereda, or the
\* coordinator calls cargar_codigos_divipola_desde_gpkg itself; an observed
\* call has the globals recorded as they are when it starts
Llamar(t, q, observado) ==
    /\ pc[t] = "idle"
    /\ Goto(t, "L133")
    /\ frame' = [frame EXCEPT ![t] =
                    [FrameIdle EXCEPT !.op = q.op, !.forzar_recarga = q.forzar_recarga,
                                      !.nombre = q.nombre, !.contexto = q.contexto]]
    /\ obs' = [obs EXCEPT ![t] =
                    [ObsIdle EXCEPT !.antes =
                        IF observado
                        THEN Some([cache |-> _CODIGOS_DIVIPOLA_CACHE, ts |-> _GPKG_TIMESTAMP])
                        ELSE None]]
    /\ UNCHANGED <<coord, archivo, globales, contadores>>

\* print of a failure diagnostic and return None
Fallar(t, via) ==
    /\ Volver(t, None)
    /\ obs' = [obs EXCEPT ![t].avisos = Inc(@), ![t].via = via]
    /\ avisos' = Inc(avisos)
    /\ UNCHANGED <<coord, archivo, globales, sin_leer, reconstrucciones>>

\* if not gpkg_path.exists(): print; return None
L133(t) ==
    /\ pc[t] = "L133"
    /\ IF gpkg_exists
       THEN /\ Goto(t, "L138")
            /\ UNCHANGED <<coord, archivo, globales, frame, obs, contadores>>
       ELSE Fallar(t, "noexiste")

\* current_timestamp = os.path.getmtime(gpkg_path), outside the try block:
\* FileNotFoundError leaves the function when the file has gone
L138(t) ==
    /\ pc[t] = "L138"
    /\ IF gpkg_exists
       THEN /\ Goto(t, "L140")
            /\ frame' = [frame EXCEPT ![t].current_timestamp = Some(gpkg_mtime)]
            /\ UNCHANGED obs
       ELSE /\ Goto(t, "excepcion")
            /\ obs' = [obs EXCEPT ![t].via = "excepcion"]
            /\ UNCHANGED frame
    /\ UNCHANGED <<coord, archivo, globales, contadores>>

\* the cache test with the None test inverted
CacheUsable_invertido(forzar_recarga, cache) == ~forzar_recarga /\ IsNone(cache)

\* the cache test without forzar_recarga
CacheUsable_sin_forzar(forzar_recarga, cache) == ~IsNone(cache)

\* not forzar_recarga and _CODIGOS_DIVIPOLA_CACHE is not None
CacheUsable(forzar_recarga, cache) == ~forzar_recarga /\ ~IsNone(cache)

L140(t) ==
    /\ pc[t] = "L140"
    /\ IF CacheUsable(frame[t].forzar_recarga, _CODIGOS_DIVIPOLA_CACHE)
       THEN Goto(t, "L140ts")
       ELSE Goto(t, "L145")
    /\ UNCHANGED <<coord, archivo, globales, frame, obs, contadores>>

\* a load-once cache: the timestamp is not compared
TimestampVigente_siempre(timestamp, current_timestamp) == TRUE

\* ... and _GPKG_TIMESTAMP == current_timestamp
TimestampVigente(timestamp, current_timestamp) == timestamp = current_timestamp

L140ts(t) ==
    /\ pc[t] = "L140ts"
    /\ IF TimestampVigente(_GPKG_TIMESTAMP, frame[t].current_timestamp)
       THEN Goto(t, "L141")
       ELSE Goto(t, "L145")
    /\ UNCHANGED <<coord, archivo, globales, frame, obs, contadores>>

\* a vereda lookup that files the context it was given in the index it was
\* handed: veredas_por_municipio.setdefault(municipio_norm, {})
L141_anota_contexto(t) ==
    /\ pc[t] = "L141"
    /\ Volver(t, _CODIGOS_DIVIPOLA_CACHE)
    /\ obs' = [obs EXCEPT ![t].via = "cache"]
    /\ _CODIGOS_DIVIPOLA_CACHE' =
          IF /\ frame[t].op = "vereda"
             /\ ~IsNone(frame[t].nombre)
             /\ ~IsNone(frame[t].contexto) /\ Val(frame[t].contexto) # <<>>
             /\ ~DictHas(Val(_CODIGOS_DIVIPOLA_CACHE).veredas_por_municipio,
                         normalizar_nombre_territorio(frame[t].contexto))
          THEN Some([Val(_CODIGOS_DIVIPOLA_CACHE) EXCEPT !.veredas_por_municipio =
                        DictSet(@, normalizar_nombre_territorio(frame[t].contexto), <<>>)])
          ELSE _CODIGOS_DIVIPOLA_CACHE
    /\ UNCHANGED <<coord, archivo, _GPKG_TIMESTAMP, contadores>>

\* return _CODIGOS_DIVIPOLA_CACHE
L141(t) ==
    /\ pc[t] = "L141"
    /\ Volver(t, _CODIGOS_DIVIPOLA_CACHE)
    /\ obs' = [obs EXCEPT ![t].via = "cache"]
    /\ UNCHANGED <<coord, archivo, globales, contadores>>

\* the timestamp stored before the file is read
L145_timestamp_antes(t) ==
    /\ pc[t] = "L145"
    /\ _GPKG_TIMESTAMP' = frame[t].current_timestamp
    /\ IF gpkg_exists /\ Readable(gpkg_content)
       THEN /\ Goto(t, "L148")
            /\ frame' = [frame EXCEPT ![t].gdf = Some(gpkg_content)]
            /\ obs' = [obs EXCEPT ![t].lecturas = Inc(@), ![t].leido_en = Some(gpkg_mtime)]
            /\ sin_leer' = FALSE
       ELSE /\ Goto(t, "L187")
            /\ obs' = [obs EXCEPT ![t].lecturas = Inc(@)]
            /\ UNCHANGED <<frame, sin_leer>>
    /\ UNCHANGED <<coord, archivo, _CODIGOS_DIVIPOLA_CACHE, reconstrucciones, avisos>>

\* gdf = gpd.read_file(gpkg_path); an exception goes to the except clause
L145(t) ==
    /\ pc[t] = "L145"
    /\ IF gpkg_exists /\ Readable(gpkg_content)
       THEN /\ Goto(t, "L148")
            /\ frame' = [frame EXCEPT ![t].gdf = Some(gpkg_content)]
            /\ obs' = [obs EXCEPT ![t].lecturas = Inc(@), ![t].leido_en = Some(gpkg_mtime)]
            /\ sin_leer' = FALSE
       ELSE /\ Goto(t, "L187")
            /\ obs' = [obs EXCEPT ![t].lecturas = Inc(@)]
            /\ UNCHANGED <<frame, sin_leer>>
    /\ UNCHANGED <<coord, archivo, globales, reconstrucciones, avisos>>

\* the dict published as soon as it is created, before the vereda loop fills it
L148_publica_antes(t) ==
    /\ pc[t] = "L148"
    /\ IF HasTipo(Val(frame[t].gdf))
       THEN LET gdf == Limpiar(Rows(Val(frame[t].gdf)))
            IN  /\ Goto(t, "L169")
                /\ frame' = [frame EXCEPT ![t].codigos_cache = Some(CrearDiccionarios(gdf)),
                                          ![t].pendientes = DeTipo(gdf, "vereda")]
                /\ _CODIGOS_DIVIPOLA_CACHE' = Some(CrearDiccionarios(gdf))
                /\ reconstrucciones' =
                       IF ~frame[t].forzar_recarga /\ ~obs[t].perturbado
                       THEN Inc(reconstrucciones) ELSE reconstrucciones
       ELSE /\ Goto(t, "L187")
            /\ UNCHANGED <<frame, reconstrucciones, _CODIGOS_DIVIPOLA_CACHE>>
    /\ UNCHANGED <<coord, archivo, _GPKG_TIMESTAMP, obs, sin_leer, avisos>>

\* dropna, strip/upper and the dict literal; KeyError when a column is missing
L148(t) ==
    /\ pc[t] = "L148"
    /\ IF HasTipo(Val(frame[t].gdf))
       THEN LET gdf == Limpiar(Rows(Val(frame[t].gdf)))
            IN  /\ Goto(t, "L169")
                /\ frame' = [frame EXCEPT ![t].codigos_cache = Some(CrearDiccionarios(gdf)),
                                          ![t].pendientes = DeTipo(gdf, "vereda")]
                \* counted: the reparse of an unforced call that saw no change under it
                /\ reconstrucciones' =
                       IF ~frame[t].forzar_recarga /\ ~obs[t].perturbado
                       THEN Inc(reconstrucciones) ELSE reconstrucciones
       ELSE /\ Goto(t, "L187")
            /\ UNCHANGED <<frame, reconstrucciones>>
    /\ UNCHANGED <<coord, archivo, globales, obs, sin_leer, avisos>>

\* for _, row in gdf[gdf['tipo'] == 'vereda'].iterrows(): one row, or the loop's end
L169(t) ==
    /\ pc[t] = "L169"
    /\ IF frame[t].pendientes # <<>>
       THEN /\ frame' = [frame EXCEPT
                ![t].codigos_cache = Some(IndexarVereda(Val(@), Head(frame[t].pendientes))),
                ![t].pendientes = Tail(@)]
            /\ UNCHANGED pc
       ELSE /\ Goto(t, "L176")
            /\ UNCHANGED frame
    /\ UNCHANGED <<coord, archivo, globales, obs, contadores>>

\* _CODIGOS_DIVIPOLA_CACHE = codigos_cache
L176(t) ==
    /\ pc[t] = "L176"
    /\ Goto(t, "L177")
    /\ _CODIGOS_DIVIPOLA_CACHE' = frame[t].codigos_cache
    /\ UNCHANGED <<coord, archivo, _GPKG_TIMESTAMP, frame, obs, contadores>>

\* the index returned without the timestamp being stored
L177_sin_timestamp(t) ==
    /\ pc[t] = "L177"
    /\ Volver(t, frame[t].codigos_cache)
    /\ obs' = [obs EXCEPT ![t].via = "carga"]
    /\ UNCHANGED <<coord, archivo, globales, contadores>>

\* _GPKG_TIMESTAMP = current_timestamp; ...; return codigos_cache
L177(t) ==
    /\ pc[t] = "L177"
    /\ _GPKG_TIMESTAMP' = frame[t].current_timestamp
    /\ Volver(t, frame[t].codigos_cache)
    /\ obs' = [obs EXCEPT ![t].via = "carga"]
    /\ UNCHANGED <<coord, archivo, _CODIGOS_DIVIPOLA_CACHE, contadores>>

\* except Exception as e: print; return None
L187(t) ==
    /\ pc[t] = "L187"
    /\ Fallar(t, "error")

\* the call is over (returned, or left by the exception)
Terminar(t) ==
    /\ pc[t] \in {"done", "excepcion"}
    /\ Goto(t, "idle")
    /\ frame' = [frame EXCEPT ![t] = FrameIdle]
    /\ obs' = [obs EXCEPT ![t] = ObsIdle]
    /\ UNCHANGED <<coord, archivo, globales, contadores>>

Paso(t) ==
    \/ L133(t) \/ L138(t) \/ L140(t) \/ L140ts(t) \/ L141(t) \/ L145(t)
    \/ L148(t) \/ L169(t) \/ L176(t) \/ L177(t) \/ L187(t) \/ Terminar(t)

Entorno ==
    \/ \E c \in Contents : Escribir(c)
    \/ \E c \in Contents : Reemplazar(c)
    \/ Borrar
    \/ \E c \in Contents : Crear(c)

\* the pipelines as the repository runs them: one call at a time (a call
\* starts only when no other is in progress), the file changing at any step
Next ==
    \/ \E t \in Callers, q \in Consultas :
          /\ \A u \in Callers : pc[u] = "idle"
          /\ Llamar(t, q, TRUE)
    \/ \E t \in Callers : Paso(t)
    \/ Entorno

Spec == Init /\ [][Next]_vars

\* callers of the loader running concurrently in one process (threads
\* interleave between statements), the file being rewritten under them
NextConc ==
    \/ \E t \in Callers, q \in ConsultasCarga : Llamar(t, q, FALSE)
    \/ \E t \in Callers : Paso(t)
    \/ \E c \in Contents : Escribir(c)

SpecConc == Init /\ [][NextConc]_vars

\* a pipeline resolving the names of its records one call at a time against
\* a reference file that stays as it is
NextRes ==
    \/ \E t \in Callers, q \in ConsultasRes :
          /\ \A u \in Callers : pc[u] = "idle"
          /\ Llamar(t, q, TRUE)
    \/ \E t \in Callers : Paso(t)

SpecRes == InitRes /\ [][NextRes]_vars

(***************************************************************************)
(* SistemaCoordinadorTolima.actualizar_sistema_completo.  coord.pc names   *)
(* the source line the run executes next; the coordinator calls the loader *)
(* as caller 1.                                                            *)
(***************************************************************************)
\* return <valor>: the run is over
Retornar(valor) ==
    coord' = [coord EXCEPT !.pc = "fin", !.resultado = Some(valor)]

\* the menu starts a run in one of the modes
Iniciar(m) ==
    /\ coord.pc \in {"idle", "fin"}
    /\ \A t \in Callers : pc[t] = "idle"
    /\ coord' = [CoordIdle EXCEPT !.pc = "L361", !.modo = m]
    /\ UNCHANGED <<archivo, globales, pc, frame, obs, contadores>>

\* if not self.verificar_docker(): return False
\* (docker-compose and PostgreSQL answer or they do not)
verificar_docker(ok) ==
    /\ coord.pc = "L361"
    /\ IF ok THEN coord' = [coord EXCEPT !.pc = "L76"] ELSE Retornar(FALSE)
    /\ UNCHANGED <<archivo, globales, pc, frame, obs, contadores>>

\* the coordinator enters cargar_codigos_divipola_desde_gpkg(forzar_recarga)
LlamarCarga(forzar_recarga, espera) ==
    /\ pc[1] = "idle"
    /\ Goto(1, "L133")
    /\ frame' = [frame EXCEPT ![1] =
                    [FrameIdle EXCEPT !.op = "cargar", !.forzar_recarga = forzar_recarga]]
    /\ obs' = [obs EXCEPT ![1] =
                    [ObsIdle EXCEPT !.antes =
                        Some([cache |-> _CODIGOS_DIVIPOLA_CACHE, ts |-> _GPKG_TIMESTAMP])]]
    /\ coord' = [coord EXCEPT !.pc = espera]
    /\ UNCHANGED <<archivo, globales, contadores>>

\* the loader is back in verificar_configuracion_sistema: an exception
\* reaches its except clause (return False, and the run aborts), a
\* returned value, index or None, lets it go on
VolverDeCarga(siguiente) ==
    /\ pc[1] \in {"done", "excepcion"}
    /\ Goto(1, "idle")
    /\ frame' = [frame EXCEPT ![1] = FrameIdle]
    /\ obs' = [obs EXCEPT ![1] = ObsIdle]
    /\ IF pc[1] = "excepcion" THEN Retornar(FALSE)
       ELSE coord' = [coord EXCEPT !.pc = siguiente]
    /\ UNCHANGED <<archivo, globales, contadores>>

\* verificar_configuracion_sistema: validar_configuracion(), which creates
\* the directories (mkdir succeeds or raises) and calls the loader unforced
L76(ok) ==
    /\ coord.pc = "L76"
    /\ IF ok THEN LlamarCarga(FALSE, "L76r")
       ELSE /\ Retornar(FALSE)
            /\ UNCHANGED <<archivo, globales, pc, frame, obs, contadores>>

L76r ==
    /\ coord.pc = "L76r"
    /\ VolverDeCarga("L79")

\* codigos = cargar_codigos_divipola_desde_gpkg(forzar_recarga=True)
L79 ==
    /\ coord.pc = "L79"
    /\ LlamarCarga(TRUE, "L79r")

\* if codigos: log else: log; return True
L79r ==
    /\ coord.pc = "L79r"
    /\ VolverDeCarga("L370")

\* archivos_ok, encontrados, faltantes = self.verificar_archivos_entrada()
\* then the two tests on modo that follow it (the files found are whatever
\* the data directory holds)
verificar_archivos_entrada(hallados) ==
    /\ coord.pc = "L370"
    /\ LET archivos_ok == hallados = {ARCHIVOS[k] : k \in 1..Len(ARCHIVOS)}
           c == [coord EXCEPT !.encontrados = hallados]
       IN  IF coord.modo = "solo_verificacion"
           THEN coord' = [c EXCEPT !.pc = "fin", !.resultado = Some(TRUE)]
           ELSE IF ~archivos_ok /\ coord.modo = "completo"
                THEN coord' = [c EXCEPT !.pc = "L377"]
                ELSE coord' = [c EXCEPT !.pc = "L383"]
    /\ UNCHANGED <<archivo, globales, pc, frame, obs, contadores>>

\* respuesta = input(...): the user goes on or cancels (return False)
L377(si) ==
    /\ coord.pc = "L377"
    /\ IF si THEN coord' = [coord EXCEPT !.pc = "L383"] ELSE Retornar(FALSE)
    /\ UNCHANGED <<archivo, globales, pc, frame, obs, contadores>>

\* the if statements of lines 389-402, in their order
Programar(encontrados) ==
    SelectSeq(ARCHIVOS, LAMBDA nombre : nombre \in encontrados)

\* cargas_exitosas = 0; cargas_programadas = [...]; total_cargas = len(...)
L383 ==
    /\ coord.pc = "L383"
    /\ coord' = [coord EXCEPT
            !.pc = "L408",
            !.cargas_exitosas = 0,
            !.cargas_programadas = Programar(coord.encontrados),
            !.total_cargas = Len(Programar(coord.encontrados)),
            !.i = 1]
    /\ UNCHANGED <<archivo, globales, pc, frame, obs, contadores>>

\* one turn of the for loop: funcion_carga() returns True or False (each
\* cargar_* method catches every exception of its pipeline); a pipeline
\* resolves names through the unforced loader, which leaves the globals as
\* verificar_configuracion_sistema's forced load left them
L408(ok) ==
    /\ coord.pc = "L408"
    /\ IF coord.i > Len(coord.cargas_programadas)
       THEN coord' = [coord EXCEPT !.pc = "L423"]
       ELSE LET c == [coord EXCEPT
                        !.intentadas = Append(@, coord.cargas_programadas[coord.i])]
            IN  IF ok
                THEN coord' = [c EXCEPT !.cargas_exitosas = @ + 1, !.i = @ + 1]
                ELSE IF coord.modo = "completo"
                     THEN coord' = [c EXCEPT !.pc = "L418"]
                     ELSE coord' = [c EXCEPT !.i = @ + 1]
    /\ UNCHANGED <<archivo, globales, pc, frame, obs, contadores>>

\* continuar = input(...): go on with the next load, or break
L418(si) ==
    /\ coord.pc = "L418"
    /\ IF si THEN coord' = [coord EXCEPT !.pc = "L408", !.i = @ + 1]
       ELSE coord' = [coord EXCEPT !.pc = "L423"]
    /\ UNCHANGED <<archivo, globales, pc, frame, obs, contadores>>

\* verificar_integridad_sistema, generar_reporte_final (both catch their
\* exceptions and change nothing here), then the result of lines 429-434
L423 ==
    /\ coord.pc = "L423"
    /\ Retornar(IF coord.cargas_exitosas = coord.total_cargas THEN TRUE
                ELSE coord.cargas_exitosas > 0)
    /\ UNCHANGED <<archivo, globales, pc, frame, obs, contadores>>

\* the statements of the loader, the coordinator being its caller
PasoCarga ==
    \/ L133(1) \/ L138(1) \/ L140(1) \/ L140ts(1) \/ L141(1) \/ L145(1)
    \/ L148(1) \/ L169(1) \/ L176(1) \/ L177(1) \/ L187(1)

\* runs of the coordinator from its menu, one after another in one
\* process; the reference file may be deleted under it
NextCoord ==
    \/ \E m \in Modos : Iniciar(m)
    \/ \E ok \in BOOLEAN : verificar_docker(ok)
    \/ \E ok \in BOOLEAN : L76(ok)
    \/ L76r
    \/ L79
    \/ L79r
    \/ \E hallados \in SUBSET {ARCHIVOS[k] : k \in 1..Len(ARCHIVOS)} :
          verificar_archivos_entrada(hallados)
    \/ \E si \in BOOLEAN : L377(si)
    \/ L383
    \/ \E ok \in BOOLEAN : L408(ok)
    \/ \E si \in BOOLEAN : L418(si)
    \/ L423
    \/ PasoCarga
    \/ Borrar

SpecCoord == Init /\ [][NextCoord]_vars

(***************************************************************************)
(* Properties                                                              *)
(***************************************************************************)
Terminada(t) == pc[t] = "done"
Antes(t) == Val(obs[t].antes)
EsResolucion(t) == frame[t].op \in {"municipio", "vereda"}
Fallida(t) == obs[t].via \in {"noexiste", "error"}

\* what the caller's query resolves to against the index of a content
RespuestaDe(t, content) ==
    Resolver(frame[t].op, Some(ConstruirIndice(content)), frame[t].nombre, frame[t].contexto)

\* the call found an index cached and the file's modification time different
\* from the stored one
VioCambio(t) ==
    /\ ~IsNone(Antes(t).cache)
    /\ ~IsNone(frame[t].current_timestamp)
    /\ Antes(t).ts # frame[t].current_timestamp

\* C1 Cache freshness after change: a resolve call that finds the file's
\* modification time different from the stored one reads the file again (the
\* file as changed, or newer) and never answers from the index cached before:
\* if the file parses, the answer is the one the index of the content read
\* gives; if it does not, the call is unresolved.
C1_FreshAfterChange ==
    \A t \in Callers :
        (Terminada(t) /\ EsResolucion(t) /\ VioCambio(t)) =>
            /\ obs[t].lecturas = 1
            /\ obs[t].via \in {"carga", "error"}
            /\ obs[t].via = "carga" =>
                  /\ Val(obs[t].leido_en) >= Val(frame[t].current_timestamp)
                  /\ frame[t].codigos = Some(ConstruirIndice(Val(frame[t].gdf)))
                  /\ frame[t].resultado = RespuestaDe(t, Val(frame[t].gdf))
            /\ obs[t].via = "error" =>
                  /\ IsNone(frame[t].gdf) \/ ~HasTipo(Val(frame[t].gdf))
                  /\ frame[t].resultado.code = NoCode

\* a resolve call answered "73002" from the rewritten file where the index
\* cached before the change answers "73001"
C1_Witness ==
    \E t \in Callers :
        /\ Terminada(t) /\ frame[t].op = "municipio" /\ VioCambio(t)
        /\ obs[t].via = "carga"
        /\ frame[t].resultado.code = "73002"
        /\ Resolver("municipio", Antes(t).cache, frame[t].nombre, None).code = "73001"

\* C2 No reparse without change: an unforced call that finds an index cached
\* and the file's modification time equal to the stored one calls read_file
\* zero times, returns the cached index itself and leaves both globals alone.
C2_NoReparseWithoutChange ==
    \A t \in Callers :
        (/\ Terminada(t) /\ ~frame[t].forzar_recarga
         /\ ~IsNone(Antes(t).cache)
         /\ ~IsNone(frame[t].current_timestamp)
         /\ Antes(t).ts = frame[t].current_timestamp) =>
            /\ obs[t].lecturas = 0
            /\ obs[t].via = "cache"
            /\ frame[t].codigos = Antes(t).cache
            /\ _CODIGOS_DIVIPOLA_CACHE = Antes(t).cache
            /\ _GPKG_TIMESTAMP = Antes(t).ts

\* a resolve call served from the cache without a read
C2_Witness ==
    \E t \in Callers :
        /\ Terminada(t) /\ frame[t].op = "municipio" /\ frame[t].nombre = Some(IBAGUE_RAW)
        /\ ~IsNone(Antes(t).cache) /\ Antes(t).ts = frame[t].current_timestamp
        /\ obs[t].lecturas = 0
        /\ frame[t].resultado.code = "73001"

\* C3 Atomic publish under concurrency: whenever the stored timestamp equals
\* the file's current modification time, the stored index is the index of the
\* content the file has at that modification time (a stale index is never
\* paired with a fresh timestamp).
C3_AtomicPublish ==
    (/\ gpkg_exists /\ gpkg_content \in ValidContents
     /\ ~IsNone(_CODIGOS_DIVIPOLA_CACHE)
     /\ _GPKG_TIMESTAMP = Some(gpkg_mtime))
        => _CODIGOS_DIVIPOLA_CACHE = Some(ConstruirIndice(gpkg_content))

\* C4 Single-flight rebuild: between two file events, the unforced callers
\* that saw no change under them rebuild the index at most once in all.
C4_SingleFlight == reconstrucciones <= 1

\* C5 No partially built index is ever visible: the index in the shared cache
\* variable, and every index a caller is handed, is the complete index of a
\* dataset (flat map, per-type lists and veredas_por_municipio all filled).
C5_NoPartialIndex ==
    /\ ~IsNone(_CODIGOS_DIVIPOLA_CACHE) =>
          \E c \in ValidContents : _CODIGOS_DIVIPOLA_CACHE = Some(ConstruirIndice(c))
    /\ \A t \in Callers :
          (Terminada(t) /\ ~IsNone(frame[t].codigos)) =>
              \E c \in ValidContents : frame[t].codigos = Some(ConstruirIndice(c))

\* a reader is handed the cached index while another caller is inside the
\* vereda loop of its rebuild, its own dict still missing entries
C5_Witness ==
    \E t, u \in Callers :
        /\ t # u
        /\ pc[t] = "L169" /\ frame[t].pendientes # <<>>
        /\ Terminada(u) /\ obs[u].via = "cache" /\ ~IsNone(frame[u].codigos)

\* C6 All-or-nothing rebuild: a call that ends without a successful build
\* (file missing, read_file or the builder raising, getmtime raising) leaves
\* _CODIGOS_DIVIPOLA_CACHE and _GPKG_TIMESTAMP as they were when it started; a
\* call that builds replaces both, with the complete index of the content it
\* read and the modification time it read.
C6_AllOrNothing ==
    \A t \in Callers :
        pc[t] \in {"done", "excepcion"} =>
            IF obs[t].via = "carga"
            THEN /\ _CODIGOS_DIVIPOLA_CACHE = Some(ConstruirIndice(Val(frame[t].gdf)))
                 /\ _GPKG_TIMESTAMP = frame[t].current_timestamp
            ELSE /\ _CODIGOS_DIVIPOLA_CACHE = Antes(t).cache
                 /\ _GPKG_TIMESTAMP = Antes(t).ts

\* a forced reload failed in the except clause with an index cached before
C6_Witness ==
    \E t \in Callers :
        /\ Terminada(t) /\ frame[t].forzar_recarga /\ obs[t].via = "error"
        /\ ~IsNone(Antes(t).cache)
        /\ Antes(t).ts # frame[t].current_timestamp

\* C7 Fallback to the previous index on failed reparse: a call that fails with
\* an index cached before is handed that index and resolves against it.
C7_FallbackPrevio ==
    \A t \in Callers :
        (Terminada(t) /\ Fallida(t) /\ ~IsNone(Antes(t).cache)) =>
            /\ frame[t].codigos = Antes(t).cache
            /\ frame[t].resultado =
                  Resolver(frame[t].op, Antes(t).cache, frame[t].nombre, frame[t].contexto)

\* C8 Degrade and recover: with no index built before, a failing call is
\* unresolved at every level (None, never the generic code "73999"), it fails
\* only when the file it looked at was missing or did not parse, and a call
\* that runs with a valid file in place builds the index and resolves with it.
C8_DegradeRecover ==
    \A t \in Callers :
        (Terminada(t) /\ IsNone(Antes(t).cache)) =>
            /\ obs[t].via # "cache"
            /\ Fallida(t) => frame[t].resultado.code = NoCode /\ IsNone(frame[t].codigos)
            /\ obs[t].via = "error" => IsNone(frame[t].gdf) \/ ~HasTipo(Val(frame[t].gdf))
            /\ (~obs[t].perturbado /\ gpkg_exists /\ gpkg_content \in ValidContents) =>
                  /\ obs[t].via = "carga"
                  /\ frame[t].resultado = RespuestaDe(t, gpkg_content)

\* the file appeared after the process started and the first call to find it
\* resolved a municipality with the index it built
C8_Witness ==
    \E t \in Callers :
        /\ Terminada(t) /\ frame[t].op = "municipio" /\ IsNone(Antes(t).cache)
        /\ gpkg_mtime > 1 /\ ~obs[t].perturbado
        /\ obs[t].via = "carga"
        /\ frame[t].resultado.code \in {"73001", "73002"}

\* C9 Failure is reported once, not per call: between two file events at most
\* one failure diagnostic is printed.
C9_UnAvisoPorFallo == avisos <= 1

\* C10 Forced reload: a call with forzar_recarga=True that finds the file in
\* place calls read_file whatever the stored timestamp, and when the file
\* parses it publishes the index of the content read; once the file's current content has been read, every
\* resolve call answers with the code the current content gives.
C10_ForcedReload ==
    \A t \in Callers :
        Terminada(t) =>
            /\ (frame[t].forzar_recarga /\ obs[t].via # "noexiste") =>
                  /\ obs[t].lecturas = 1
                  /\ obs[t].via \in {"carga", "error"}
                  /\ obs[t].via = "carga" =>
                        /\ frame[t].codigos = Some(ConstruirIndice(Val(frame[t].gdf)))
                        /\ _CODIGOS_DIVIPOLA_CACHE = frame[t].codigos
                  /\ obs[t].via = "error" =>
                        IsNone(frame[t].gdf) \/ ~HasTipo(Val(frame[t].gdf))
            /\ (/\ EsResolucion(t) /\ ~sin_leer
                /\ gpkg_exists /\ gpkg_content \in ValidContents) =>
                  /\ obs[t].via \in {"cache", "carga"}
                  /\ frame[t].resultado = RespuestaDe(t, gpkg_content)

\* a forced reload found the stored timestamp equal to the file's modification
\* time and published an index different from the cached one
C10_Witness ==
    \E t \in Callers :
        /\ Terminada(t) /\ frame[t].forzar_recarga /\ obs[t].via = "carga"
        /\ ~IsNone(Antes(t).cache)
        /\ Antes(t).ts = frame[t].current_timestamp
        /\ _CODIGOS_DIVIPOLA_CACHE # Antes(t).cache

\* the index the resolve call was handed, and the normalized name it looked up
Indice(t) == Val(frame[t].codigos)
NombreNorm(t) == normalizar_nombre_territorio(frame[t].nombre)

\* a resolve call that ran to its end with an index
Resuelta(t) == Terminada(t) /\ EsResolucion(t) /\ ~IsNone(frame[t].codigos)

\* C11 Idempotent normalization: normalizing the normalized form of any name a
\* resolve call was given (names with runs of three or more spaces and names
\* that become an alias key only after folding or collapsing included) gives
\* the normalized form again.
C11_NormalizacionIdempotente ==
    \A t \in Callers :
        Resuelta(t) => normalizar_nombre_territorio(NombreNorm(t)) = NombreNorm(t)

\* the records of the level the call resolves at, in the order of the file
\* read, the code resolve returns for one, and its normalized name
Registros(t) ==
    DeTipo(Indice(t).dataframe, IF frame[t].op = "municipio" THEN "municipio" ELSE "vereda")
CodigoDe(t, r) == IF frame[t].op = "municipio" THEN r.codigo_municipio ELSE r.codigo_divipola
NormDe(r) == Val(normalizar_nombre_territorio(r.nombre))

\* the records whose normalized name equals the normalized query, and those in
\* substring containment with it, either way
Exactos(t) == {i \in 1..Len(Registros(t)) : NormDe(Registros(t)[i]) = Val(NombreNorm(t))}
Aproximados(t) ==
    {i \in 1..Len(Registros(t)) :
        \/ StrIn(Val(NombreNorm(t)), NormDe(Registros(t)[i]))
        \/ StrIn(NormDe(Registros(t)[i]), Val(NombreNorm(t)))}

\* a resolve call with an index and a name that is not null
ConNombre(t) == Resuelta(t) /\ ~IsNone(frame[t].nombre)

\* C12 Exact match always beats fuzzy: a query whose normalized form equals the
\* normalized name of a record of the level resolves to the code of a record
\* that matches exactly, without the approximate-match diagnostic, whatever
\* containment candidates come earlier in file order.
C12_ExactoAntesQueAproximado ==
    \A t \in Callers :
        (ConNombre(t) /\ Exactos(t) # {}) =>
            /\ frame[t].resultado.code \in {CodigoDe(t, Registros(t)[i]) : i \in Exactos(t)}
            /\ frame[t].resultado.prints = <<>>

\* the query equals a record's name and is contained in the name of an earlier
\* record with another code
C12_Witness ==
    \E t \in Callers :
        /\ ConNombre(t) /\ Exactos(t) # {}
        /\ \E j \in Aproximados(t) \ Exactos(t) :
              /\ \A i \in Exactos(t) : j < i
              /\ CodigoDe(t, Registros(t)[j]) # frame[t].resultado.code

\* C13 Sentinel only at municipality level: with an index, a municipality name
\* that is not null and matches no municipality, exactly or by containment,
\* resolves to the generic code "73999"; a township name that matches no
\* township resolves to None, and no township call ever returns "73999".
C13_GenericoSoloMunicipio ==
    \A t \in Callers :
        ConNombre(t) =>
            /\ (Exactos(t) = {} /\ Aproximados(t) = {}) =>
                  frame[t].resultado.code = IF frame[t].op = "municipio" THEN "73999" ELSE NoCode
            /\ frame[t].op = "vereda" => frame[t].resultado.code # "73999"

\* an unmatched municipality name resolved against an index with municipalities
C13_Witness ==
    \E t \in Callers :
        /\ ConNombre(t) /\ frame[t].op = "municipio"
        /\ Registros(t) # <<>> /\ Exactos(t) = {} /\ Aproximados(t) = {}
        /\ frame[t].resultado = Resultado("73999", <<"no_encontrado">>)

\* the call was given a municipio_contexto (None and the empty str are not one)
ConContexto(t) ==
    /\ ConNombre(t) /\ frame[t].op = "vereda"
    /\ ~IsNone(frame[t].contexto) /\ Val(frame[t].contexto) # <<>>

\* the townships of the queried name under the municipality the context
\* names, the two compared in normalized form
DelContexto(t) ==
    {i \in Exactos(t) :
        normalizar_nombre_territorio(Registros(t)[i].municipio)
            = normalizar_nombre_territorio(frame[t].contexto)}

\* C14 Parent context disambiguates same-named townships: a township call
\* whose context names, in any spelling, a municipality that has a township of
\* the queried name returns the code of that municipality's township, wherever
\* it stands in file order.
C14_ContextoDesambigua ==
    \A t \in Callers :
        (ConContexto(t) /\ DelContexto(t) # {}) =>
            frame[t].resultado.code \in {CodigoDe(t, Registros(t)[i]) : i \in DelContexto(t)}

\* the entry of veredas_por_municipio the normalized context selects ({} when
\* the index has none) and its townships of the queried name
SubIndice(t) ==
    DictGet(Indice(t).veredas_por_municipio,
            normalizar_nombre_territorio(frame[t].contexto), <<>>)
EnSubIndice(t) ==
    {i \in 1..Len(SubIndice(t)) :
        normalizar_nombre_territorio(SubIndice(t)[i].k) = NombreNorm(t)}

\* what the same name resolves to with no context
SinContexto(t) == buscar_codigo_vereda(frame[t].codigos, frame[t].nombre, None)

\* C15 Context narrows, never widens: a township call whose context is unknown
\* to the index, or known without a township of the queried name, returns
\* exactly what the same name returns with no context; and no context turns a
\* name that resolves without context into None.
C15_ContextoNoAmplia ==
    \A t \in Callers :
        ConContexto(t) =>
            /\ EnSubIndice(t) = {} => frame[t].resultado = SinContexto(t)
            /\ SinContexto(t).code # NoCode => frame[t].resultado.code # NoCode

\* a context the index knows, without a township of the queried name: the
\* call fell through to the global search and returned a code
C15_Witness ==
    \E t \in Callers :
        /\ ConContexto(t) /\ EnSubIndice(t) = {}
        /\ SubIndice(t) # <<>>
        /\ frame[t].resultado.code # NoCode

\* the place in the file read of the row with a given codigo_divipola
PosEnArchivo(t, codigo) ==
    CHOOSE k \in 1..Len(Rows(Val(frame[t].gdf))) :
        Rows(Val(frame[t].gdf))[k].codigo_divipola = codigo

\* a list of records of the index follows the order of the file
EnOrdenDeArchivo(t, lista) ==
    \A i, j \in 1..Len(lista) :
        i < j => PosEnArchivo(t, lista[i].codigo_divipola)
                     < PosEnArchivo(t, lista[j].codigo_divipola)

\* C16 Order-stable fuzzy tie-break: the per-level lists of a built index keep
\* the order of the file, and a query with no exact match that is in substring
\* containment (either way) with two or more records of the level resolves to
\* the code of the earliest of them in file order, on a first call and on
\* every call served from the cache.
C16_AproximadoPrimeroEnArchivo ==
    \A t \in Callers :
        /\ (Terminada(t) /\ obs[t].via = "carga") =>
              /\ EnOrdenDeArchivo(t, Indice(t).municipios)
              /\ EnOrdenDeArchivo(t, Indice(t).veredas)
              /\ EnOrdenDeArchivo(t, Indice(t).cabeceras)
        /\ (ConNombre(t) /\ Exactos(t) = {} /\ Cardinality(Aproximados(t)) >= 2) =>
              \E i \in Aproximados(t) :
                  /\ \A j \in Aproximados(t) : i <= j
                  /\ frame[t].resultado =
                        Resultado(CodigoDe(t, Registros(t)[i]), <<"aproximado">>)

\* a repeated call, served from the cache, resolved a name contained in two
\* records to the earlier one, which is not the first record of the level
C16_Witness ==
    \E t \in Callers :
        /\ ConNombre(t) /\ obs[t].via = "cache"
        /\ Exactos(t) = {} /\ Cardinality(Aproximados(t)) >= 2
        /\ 1 \notin Aproximados(t)
        /\ \E j \in Aproximados(t) :
              CodigoDe(t, Registros(t)[j]) # frame[t].resultado.code

\* the keys of a dict, as a set
Claves(d) == {d[i].k : i \in 1..Len(d)}

\* the vereda rows of the index
FilasVereda(t) == DeTipo(Indice(t).dataframe, "vereda")

\* C17 Indices are keyed only on normalized forms: in every index handed to a
\* call, the keys of nombre_a_codigo are the normalized names of the records,
\* the keys of veredas_por_municipio the normalized parent names of the
\* township records, and the keys under each parent the normalized names of
\* its townships.
C17_ClavesNormalizadas ==
    \A t \in Callers :
        (Terminada(t) /\ ~IsNone(frame[t].codigos)) =>
            /\ Claves(Indice(t).nombre_a_codigo) =
                  {normalizar_nombre_territorio(Indice(t).dataframe[i].nombre) :
                      i \in 1..Len(Indice(t).dataframe)}
            /\ Claves(Indice(t).veredas_por_municipio) =
                  {normalizar_nombre_territorio(FilasVereda(t)[i].municipio) :
                      i \in 1..Len(FilasVereda(t))}
            /\ \A p \in 1..Len(Indice(t).veredas_por_municipio) :
                  Claves(Indice(t).veredas_por_municipio[p].v) =
                      {normalizar_nombre_territorio(FilasVereda(t)[i].nombre) :
                          i \in {j \in 1..Len(FilasVereda(t)) :
                                   normalizar_nombre_territorio(FilasVereda(t)[j].municipio)
                                       = Indice(t).veredas_por_municipio[p].k}}

\* the records of every level whose normalized name equals the normalized query
ExactosGlobal(t) ==
    {i \in 1..Len(Indice(t).dataframe) :
        normalizar_nombre_territorio(Indice(t).dataframe[i].nombre) = NombreNorm(t)}

\* C18 Global exact match uses the last-write-wins flat map: when no context
\* match applies, a query whose normalized form is the normalized name of some
\* record resolves to the code of the last such record in file order, over
\* all levels.
C18_UltimoRegistroGana ==
    \A t \in Callers :
        (/\ ConNombre(t)
         /\ ~ConContexto(t) \/ EnSubIndice(t) = {}
         /\ ExactosGlobal(t) # {}) =>
            \E i \in ExactosGlobal(t) :
                /\ \A j \in ExactosGlobal(t) : j <= i
                /\ frame[t].resultado.code = Indice(t).dataframe[i].codigo_divipola

\* the name given is null, empty or blank
NombreVacio(t) == IsNone(frame[t].nombre) \/ StrStrip(Val(frame[t].nombre)) = <<>>

\* C19 Resolve of an empty name is unresolved: with an index, a call whose name
\* is null, empty or only whitespace returns None at every level, never a
\* record's code or the generic code.
C19_NombreVacioSinResolver ==
    \A t \in Callers :
        (Resuelta(t) /\ NombreVacio(t)) => frame[t].resultado.code = NoCode

\* C20 Only configuration errors propagate: whatever the name, the context and
\* the state of the reference file at each moment of the call, the loader and
\* the resolvers return a value and no call is left by an exception.
C20_SinExcepciones ==
    \A t \in Callers : pc[t] # "excepcion"

\* C21 Published index is never mutated: the globals change only in the two
\* assignments of cargar_codigos_divipola_desde_gpkg (lines 176 and 177), so a
\* rebuild fills a dict of its own and the published one keeps its entries
\* until it is replaced whole; and the step in which a resolve call gets its
\* index and looks the name up (a vereda lookup with an unknown context
\* included) leaves the published index as it was and hands the caller that
\* very index.
C21_IndiceNoMutado ==
    [][ /\ globales' # globales =>
              \E t \in Callers : pc[t] \in {"L176", "L177"} /\ pc'[t] # pc[t]
        /\ \A t \in Callers :
              (/\ pc[t] # "done" /\ pc'[t] = "done"
               /\ frame'[t].op \in {"municipio", "vereda"}
               /\ ~IsNone(frame'[t].codigos)) =>
                  /\ _CODIGOS_DIVIPOLA_CACHE' = _CODIGOS_DIVIPOLA_CACHE
                  /\ frame'[t].codigos = _CODIGOS_DIVIPOLA_CACHE
      ]_vars

\* a vereda lookup with a context the index has no entry for was served from
\* the cache, and the published index still has no entry for that context
C21_Witness ==
    \E t \in Callers :
        /\ ConContexto(t) /\ obs[t].via = "cache"
        /\ frame[t].codigos = _CODIGOS_DIVIPOLA_CACHE
        /\ ~DictHas(Val(_CODIGOS_DIVIPOLA_CACHE).veredas_por_municipio,
                    normalizar_nombre_territorio(frame[t].contexto))

\* C22 Normalizer maps empty to null: the normalized form of a null name and
\* of the empty str is None, and no name normalizes to the empty str.
C22_VacioANulo ==
    \A t \in Callers :
        Resuelta(t) =>
            /\ frame[t].nombre \in {None, Some(VACIO)} => NombreNorm(t) = None
            /\ NombreNorm(t) # Some(VACIO)

\* C23 Whitespace collapse: the normalized form of a name that is not null has
\* no leading or trailing space and no two consecutive spaces, however long
\* the runs of spaces in the name are.
C23_EspaciosColapsados ==
    \A t \in Callers :
        ConNombre(t) =>
            /\ StrStrip(Val(NombreNorm(t))) = Val(NombreNorm(t))
            /\ ~StrIn(<<" ", " ">>, Val(NombreNorm(t)))

\* C24 Bounded retry on transient read failure: an unforced call that found an
\* index cached and the file changed, and whose read_file raised, has called
\* read_file again (at least twice in all) before giving up.
C24_ReintentoAcotado ==
    \A t \in Callers :
        (/\ Terminada(t) /\ ~frame[t].forzar_recarga /\ VioCambio(t)
         /\ obs[t].via = "error" /\ IsNone(frame[t].gdf)) => obs[t].lecturas >= 2

\* the rows of the file the call read that lack nombre or codigo_divipola
FilasIncompletas(t) ==
    {k \in 1..Len(Rows(Val(frame[t].gdf))) :
        \/ IsNone(Rows(Val(frame[t].gdf))[k].nombre)
        \/ Rows(Val(frame[t].gdf))[k].codigo_divipola = NaN}

\* every record of a list has a name and a code
Completos(lista) ==
    \A i \in 1..Len(lista) : ~IsNone(lista[i].nombre) /\ lista[i].codigo_divipola # NaN

\* every entry of a name -> code dict has a name and a code
EntradasCompletas(d) == \A i \in 1..Len(d) : ~IsNone(d[i].k) /\ d[i].v # NaN

\* the codes an index holds, in all its parts
CodigosDe(idx) ==
    {idx.nombre_a_codigo[i].v : i \in 1..Len(idx.nombre_a_codigo)}
    \cup {idx.municipios[i].codigo_divipola : i \in 1..Len(idx.municipios)}
    \cup {idx.veredas[i].codigo_divipola : i \in 1..Len(idx.veredas)}
    \cup {idx.cabeceras[i].codigo_divipola : i \in 1..Len(idx.cabeceras)}
    \cup UNION {{idx.veredas_por_municipio[p].v[i].v : i \in 1..Len(idx.veredas_por_municipio[p].v)} :
                   p \in 1..Len(idx.veredas_por_municipio)}

\* C25 Records missing name or code are dropped: the index a call builds has
\* no record without name or without code in the flat map, in the lists
\* municipios, veredas and cabeceras or under veredas_por_municipio, the code
\* of a row without name appears nowhere in it, and a file that parses builds
\* whatever rows of it are incomplete.
C25_IncompletosDescartados ==
    \A t \in Callers :
        /\ (Terminada(t) /\ obs[t].via = "carga") =>
              /\ EntradasCompletas(Indice(t).nombre_a_codigo)
              /\ Completos(Indice(t).municipios)
              /\ Completos(Indice(t).veredas)
              /\ Completos(Indice(t).cabeceras)
              /\ \A p \in 1..Len(Indice(t).veredas_por_municipio) :
                    EntradasCompletas(Indice(t).veredas_por_municipio[p].v)
              /\ \A k \in FilasIncompletas(t) :
                    Rows(Val(frame[t].gdf))[k].codigo_divipola \notin CodigosDe(Indice(t)) \ {NaN}
        /\ (Terminada(t) /\ ~IsNone(frame[t].gdf) /\ HasTipo(Val(frame[t].gdf))) =>
              obs[t].via = "carga"

\* an index built from a file with a row without nombre and a row without
\* codigo_divipola
C25_Witness ==
    \E t \in Callers :
        /\ Terminada(t) /\ obs[t].via = "carga"
        /\ \E k \in FilasIncompletas(t) : IsNone(Rows(Val(frame[t].gdf))[k].nombre)
        /\ \E k \in FilasIncompletas(t) : Rows(Val(frame[t].gdf))[k].codigo_divipola = NaN
        /\ Len(Indice(t).dataframe) = Len(Rows(Val(frame[t].gdf))) - Cardinality(FilasIncompletas(t))

\* C26 One audit record per fallback: a resolve call with an index and a name
\* prints nothing when it returns by an exact match (in the context or in the
\* level), exactly one approximate-match diagnostic when it returns by
\* containment, and exactly one not-found diagnostic when nothing matches
\* (generic code for a municipality, None for a township); never two.
C26_UnDiagnosticoPorLlamada ==
    \A t \in Callers :
        ConNombre(t) =>
            frame[t].resultado.prints =
                IF Exactos(t) # {} THEN <<>>
                ELSE IF Aproximados(t) # {} THEN <<"aproximado">>
                ELSE <<"no_encontrado">>

\* an approximate match printed its one diagnostic
C26_Witness ==
    \E t \in Callers :
        /\ ConNombre(t) /\ Exactos(t) = {} /\ Aproximados(t) # {}
        /\ frame[t].resultado.code \notin {NoCode, SENTINEL}
        /\ frame[t].resultado.prints = <<"aproximado">>

\* no call is in progress
Quieto == \A t \in Callers : pc[t] \in {"idle", "done", "excepcion"}

\* C27 Cache and timestamp are paired: between sequential calls, whatever the
\* file events, _CODIGOS_DIVIPOLA_CACHE is None exactly when _GPKG_TIMESTAMP
\* is None; a call that built leaves the index it built paired with the
\* modification time that same call read, and a call that did not build
\* leaves the pair it found.
C27_CacheYTimestampEmparejados ==
    Quieto =>
        /\ IsNone(_CODIGOS_DIVIPOLA_CACHE) <=> IsNone(_GPKG_TIMESTAMP)
        /\ \A t \in Callers :
              pc[t] \in {"done", "excepcion"} =>
                  IF obs[t].via = "carga"
                  THEN /\ _CODIGOS_DIVIPOLA_CACHE = frame[t].codigos_cache
                       /\ _GPKG_TIMESTAMP = frame[t].current_timestamp
                       /\ ~IsNone(_CODIGOS_DIVIPOLA_CACHE) /\ ~IsNone(_GPKG_TIMESTAMP)
                  ELSE globales = <<Antes(t).cache, Antes(t).ts>>

\* a rebuild after a rewrite replaced an older pair: the stored timestamp is
\* the one the call read, later than the one stored before
C27_Witness ==
    \E t \in Callers :
        /\ Terminada(t) /\ obs[t].via = "carga"
        /\ ~IsNone(Antes(t).cache) /\ ~IsNone(Antes(t).ts)
        /\ _GPKG_TIMESTAMP = frame[t].current_timestamp
        /\ Val(_GPKG_TIMESTAMP) > Val(Antes(t).ts)

\* C28 Municipality resolution is total: with an index and a name that is not
\* null, buscar_codigo_municipio returns a value that is not null, the
\* codigo_municipio of a matched record or "73999", for every dataset the
\* builder accepts.
C28_MunicipioTotal ==
    \A t \in Callers :
        (ConNombre(t) /\ frame[t].op = "municipio") =>
            /\ frame[t].resultado.code \notin {NoCode, NaN}
            /\ \/ frame[t].resultado.code = "73999"
               \/ \E i \in Exactos(t) \cup Aproximados(t) :
                     frame[t].resultado.code = Registros(t)[i].codigo_municipio

\* C29 Pipeline pre-normalization does not change the result: resolving the
\* normalized, title-cased form of a name the loaders substitute for it gives
\* the same code as resolving the name itself, against the same index and
\* with the same context.
C29_PreNormalizarNoCambia ==
    \A t \in Callers :
        ConNombre(t) =>
            Resolver(frame[t].op, frame[t].codigos, PreNormalizar(frame[t].nombre),
                     frame[t].contexto).code
                = frame[t].resultado.code

\* position of an input file in the dependency order of the loads
OrdenDe(nombre) == CHOOSE k \in 1..Len(ARCHIVOS) : ARCHIVOS[k] = nombre

\* C30 Coordinator run outcome: outside solo_verificacion the loads run in
\* the order territorial units, population, vaccination, cases, epizootias;
\* in mode "rapido" a run that reaches its end has attempted every
\* scheduled load, failures included; and a run returns True only if at
\* least one load succeeded.
C30_ResultadoDeLaCorrida ==
    coord.modo # "solo_verificacion" =>
        /\ \A j, k \in 1..Len(coord.intentadas) :
              j < k => OrdenDe(coord.intentadas[j]) < OrdenDe(coord.intentadas[k])
        /\ (coord.pc = "fin" /\ coord.modo = "rapido")
              => coord.intentadas = Programar(coord.encontrados)
        /\ (coord.pc = "fin" /\ coord.resultado = Some(TRUE)) => coord.cargas_exitosas >= 1

====
